---- MODULE Spec2Model ----
(***************************************************************************)
(* Model of the chunked-streaming match pipeline of simd-grep:             *)
(*   - Chunker (src/src/io/chunker.rs): overlap-preserving windowed reader *)
(*   - GrepEngine::search (src/src/engine.rs): per-window scan loop        *)
(*   - VecSink / MatchSink: the sequence of on_match calls                 *)
(* Bytes are small integers; offsets are 0-based as in the source, while   *)
(* TLA+ sequences are 1-based (byte at offset o is s[o + 1]).              *)
(***************************************************************************)
EXTENDS Integers, Sequences, FiniteSets, TLC

(* ------------------------------ bounds --------------------------------- *)
\* longest stream fed to a search
MaxStream == 5
\* longest needle (overlap = needle length - 1, so overlaps 0..MaxNeedle-1)
MaxNeedle == 3
\* largest GrepOptions.chunk_bytes (0 is included: nothing rejects it)
MaxChunk == 3
\* stand-in for the 4 * 1024 capacity floor of Chunker::new, scaled down to
\* the size of the modelled streams so that a stream can exceed the buffer
MinCap == 3
\* on_match calls recorded before the model stops following a run
MaxSink == 6
\* one chunk size beyond every modelled stream length
BigChunk == 8
\* largest overlap given to a Chunker that is driven directly
MaxOverlap == 2

\* alphabet of the stream and the needle
Byte == {1, 2}
\* GrepOptions.file_id values
FileIds == {0, 7}
\* GrepOptions.chunk_bytes values
ChunkSizes == (0..MaxChunk) \cup {BigChunk}
\* GrepOptions.flags values: empty, COUNT_ONLY (engine.rs:14)
COUNT_ONLY == 1
FlagSets == {0, COUNT_ONLY}

Min(a, b) == IF a <= b THEN a ELSE b
Max(a, b) == IF a >= b THEN a ELSE b

SeqsUpTo(n) == UNION {[1..k -> Byte] : k \in 0..n}

(* --------------------------- pure functions ---------------------------- *)
OverlapWholeNeedle(ndl) == Len(ndl)
\* engine.rs:102  self.needle.len().saturating_sub(1)
OverlapOf(ndl) == IF Len(ndl) = 0 THEN 0 ELSE Len(ndl) - 1

\* chunker.rs:57  cmp::max(4 * 1024, chunk_size.saturating_add(overlap))
Capacity(cs, ov) == Max(MinCap, cs + ov)

\* chunker.rs:60  vec![0u8; cap]
ZeroBuf(cap) == [i \in 1..cap |-> 0]

CarryOneMore(l, ov) == IF l > 0 /\ ov > 0 THEN Min(l, ov + 1) ELSE 0
\* chunker.rs:92  self.len.min(self.overlap), taken only when len > 0 and overlap > 0
CarryLen(l, ov) == IF l > 0 /\ ov > 0 THEN Min(l, ov) ELSE 0

AdvancedNoCarry(l, c) == l
\* chunker.rs:96  let advanced = self.len - carry
Advanced(l, c) == l - c

\* chunker.rs:101-102  self.buf.copy_within(start..self.len, 0)
CopyWithin(b, start, end) ==
  [i \in 1..Len(b) |-> IF i <= end - start THEN b[start + i] ELSE b[i]]

\* chunker.rs:114  &mut self.buf[self.len + filled..]  (its length)
DstLen(cap, l, f) == cap - (l + f)

\* chunker.rs:118  the bytes read(dst) stores at the front of dst
WriteAt(b, at, data) ==
  [i \in 1..Len(b) |-> IF i > at /\ i <= at + Len(data) THEN data[i - at] ELSE b[i]]

NoDataNever(l) == FALSE
\* chunker.rs:129  if self.len == 0
NoData(l) == l = 0

\* chunker.rs:136  self.eof && filled == 0 && self.len <= self.overlap && self.len > 0
OnlyCarried(e, f, l, ov) == e /\ f = 0 /\ l <= ov /\ l > 0

LenKept(l) == l
\* chunker.rs:138  self.len = 0
ResetLen(l) == 0

\* engine.rs:123  memmem::find(hay, ndl): first index of ndl in hay, NoHit for None
NoHit == -1
HitAt(hay, ndl, p) ==
  /\ p + Len(ndl) <= Len(hay)
  /\ SubSeq(hay, p + 1, p + Len(ndl)) = ndl
MemmemFind(hay, ndl) ==
  IF \E p \in 0..Len(hay) : HitAt(hay, ndl, p)
  THEN CHOOSE p \in 0..Len(hay) :
         /\ HitAt(hay, ndl, p)
         /\ \A q \in 0..Len(hay) : HitAt(hay, ndl, q) => p <= q
  ELSE NoHit

SkipWholeMatch(pos, nlen) == pos + nlen
\* engine.rs:130  search_off = pos + 1
NextSearchOff(pos, nlen) == pos + 1

\* engine.rs:123  &chunk[search_off..]
SliceFrom(s, from) == SubSeq(s, from + 1, Len(s))

\* results of Chunker::next_chunk: io::Result<Option<(u64, &[u8])>>
NoneRet == [kind |-> "None", off |-> 0, bytes |-> <<>>]
ErrRet == [kind |-> "Err", off |-> 0, bytes |-> <<>>]
SomeRet(base, out) == [kind |-> "Some", off |-> base, bytes |-> out]

MatchSwapped(o, l, fid) == [off |-> o, len |-> l, line_no |-> fid, file_id |-> 0]
\* engine.rs:113,126  the arguments of one MatchSink::on_match call
Match(o, l, fid) == [off |-> o, len |-> l, line_no |-> 0, file_id |-> fid]

RetryOnErr(isErr, n) == IF isErr THEN "read" ELSE IF n = 0 THEN "finish" ELSE "read"
\* chunker.rs:118-123  where the read loop goes after one reader.read(dst)?
AfterRead(isErr, n) == IF isErr THEN "ret" ELSE IF n = 0 THEN "finish" ELSE "read"

(* ------------------------------- state --------------------------------- *)
VARIABLES
  stream,           \* the bytes the source will deliver
  needle,           \* GrepEngine.needle
  file_id,          \* GrepEngine.opts.file_id
  faulty,           \* whether the source may fail a read
  src_pos,          \* bytes the source has handed over so far
  err_seen,         \* a read on the source has returned Err
  buf,              \* Chunker.buf
  chunk_size,       \* Chunker.chunk_size (= opts.chunk_bytes)
  overlap,          \* Chunker.overlap
  len,              \* Chunker.len
  eof,              \* Chunker.eof
  next_global_off,  \* Chunker.next_global_off
  carry,            \* local of next_chunk
  filled,           \* local of next_chunk
  ret,              \* value returned by the last next_chunk call
  search_off,       \* local of search
  sink,             \* the on_match calls received, in order
  pc,               \* position of the search / next_chunk code
  flags,            \* GrepEngine.opts.flags
  win,              \* history: the last window next_chunk returned
  prev_win,         \* history: the window returned before win
  seen,             \* history: stream positions in the windows before win
  ranges,           \* history: stream ranges <<a, b>> (b - a <= overlap + 1)
                    \*          that lay wholly inside one returned window
  none_seen,        \* history: next_chunk has returned Ok(None)
  after_none,       \* history: a call made after that has returned
  win_start         \* history: length of the sink when the scan of the
                    \*          current window began

vars == <<stream, needle, file_id, faulty, src_pos, err_seen, buf, chunk_size,
          overlap, len, eof, next_global_off, carry, filled, ret, search_off,
          sink, pc, flags, win, prev_win, seen, ranges, none_seen,
          after_none, win_start>>

config == <<stream, needle, file_id, faulty, chunk_size, overlap, flags>>

\* the history of the windows returned so far
hist == <<win, prev_win, seen, ranges, none_seen, after_none>>

\* stream positions a window holds
Positions(w) ==
  IF w.kind = "Some" THEN w.off .. (w.off + Len(w.bytes) - 1) ELSE {}

\* stream ranges [a, b) of length 1..ov + 1 that lie wholly inside a window
RangesIn(w, ov) ==
  {<<a, b>> \in Positions(w) \X (1..MaxStream) :
     a < b /\ b - a <= ov + 1 /\ b <= w.off + Len(w.bytes)}

\* next_chunk returns r to its caller
Return(r) ==
  /\ ret' = r
  /\ IF r.kind = "Some"
     THEN /\ win' = r
          /\ prev_win' = win
          /\ seen' = seen \cup Positions(win)
          /\ ranges' = ranges \cup RangesIn(r, overlap)
     ELSE UNCHANGED <<win, prev_win, seen, ranges>>
  /\ none_seen' = (none_seen \/ r.kind = "None")
  /\ after_none' = (after_none \/ none_seen)

\* engine.rs:79-81 new_literal, engine.rs:100-106 entry of search,
\* chunker.rs:55-67 Chunker::new
Init ==
  /\ stream \in SeqsUpTo(MaxStream)
  /\ needle \in SeqsUpTo(MaxNeedle)
  /\ file_id \in FileIds
  /\ faulty \in BOOLEAN
  /\ flags \in FlagSets
  /\ chunk_size \in ChunkSizes
  /\ overlap = OverlapOf(needle)
  /\ buf = ZeroBuf(Capacity(chunk_size, overlap))
  /\ len = 0
  /\ eof = FALSE
  /\ next_global_off = 0
  /\ src_pos = 0
  /\ err_seen = FALSE
  /\ carry = 0
  /\ filled = 0
  /\ ret = NoneRet
  /\ search_off = 0
  /\ sink = <<>>
  /\ win = NoneRet
  /\ prev_win = NoneRet
  /\ seen = {}
  /\ ranges = {}
  /\ none_seen = FALSE
  /\ after_none = FALSE
  /\ win_start = 0
  /\ pc = "loop"

(* ------------------------- Chunker::next_chunk ------------------------- *)
\* chunker.rs:83-112  entry check, carry step, filled = 0
NextChunkEnter ==
  /\ pc = "loop"
  /\ IF eof /\ len = 0
     THEN /\ Return(NoneRet)
          /\ pc' = "ret"
          /\ UNCHANGED <<buf, len, next_global_off, carry, filled>>
     ELSE /\ carry' = CarryLen(len, overlap)
          /\ IF len > 0 /\ overlap > 0
             THEN /\ next_global_off' = next_global_off + Advanced(len, carry')
                  /\ buf' = IF carry' > 0
                            THEN CopyWithin(buf, len - carry', len)
                            ELSE buf
                  /\ len' = carry'
             ELSE IF len = 0
             THEN /\ next_global_off' = 0
                  /\ UNCHANGED <<buf, len>>
             ELSE UNCHANGED <<next_global_off, buf, len>>
          /\ filled' = 0
          /\ pc' = "read"
          /\ UNCHANGED <<ret, hist>>
  /\ UNCHANGED <<config, src_pos, err_seen, eof, search_off, sink, win_start>>

\* chunker.rs:113-117  loop condition false, or dst.is_empty()
ReadLoopExit ==
  /\ pc = "read"
  /\ \/ filled >= chunk_size
     \/ DstLen(Len(buf), len, filled) = 0
  /\ pc' = "finish"
  /\ UNCHANGED <<config, src_pos, err_seen, buf, len, eof, next_global_off,
                 carry, filled, ret, search_off, sink, hist, win_start>>

ReadGuard ==
  /\ pc = "read"
  /\ filled < chunk_size
  /\ DstLen(Len(buf), len, filled) > 0

\* chunker.rs:118,123  reader.read(dst) returns n > 0: any n the source has
\* and dst can hold
SourceRead ==
  /\ ReadGuard
  /\ \E n \in 1..Min(DstLen(Len(buf), len, filled), Len(stream) - src_pos) :
       /\ buf' = WriteAt(buf, len + filled, SubSeq(stream, src_pos + 1, src_pos + n))
       /\ src_pos' = src_pos + n
       /\ filled' = filled + n
       /\ pc' = AfterRead(FALSE, n)
  /\ UNCHANGED <<config, err_seen, len, eof, next_global_off, carry, ret,
                 search_off, sink, hist, win_start>>

\* chunker.rs:118-122  reader.read(dst) returns 0: end of stream
SourceEof ==
  /\ ReadGuard
  /\ src_pos = Len(stream)
  /\ eof' = TRUE
  /\ pc' = AfterRead(FALSE, 0)
  /\ UNCHANGED <<config, src_pos, err_seen, buf, len, next_global_off, carry,
                 filled, ret, search_off, sink, hist, win_start>>

\* chunker.rs:118  reader.read(dst)? returns Err: next_chunk returns it
SourceErr ==
  /\ ReadGuard
  /\ faulty
  /\ err_seen' = TRUE
  /\ pc' = AfterRead(TRUE, 0)
  /\ Return(ErrRet)
  /\ UNCHANGED <<config, src_pos, buf, len, eof, next_global_off, carry,
                 filled, search_off, sink, win_start>>

\* chunker.rs:126-144  len += filled, the two "no window" exits, the window
NextChunkFinish ==
  /\ pc = "finish"
  /\ LET l == len + filled IN
       IF NoData(l)
       THEN /\ len' = l
            /\ Return(NoneRet)
       ELSE IF OnlyCarried(eof, filled, l, overlap)
       THEN /\ len' = ResetLen(l)
            /\ Return(NoneRet)
       ELSE /\ len' = l
            /\ Return(SomeRet(next_global_off, SubSeq(buf, 1, l)))
  /\ pc' = "ret"
  /\ UNCHANGED <<config, src_pos, err_seen, buf, eof, next_global_off, carry,
                 filled, search_off, sink, win_start>>

(* -------------------------- GrepEngine::search ------------------------- *)
\* one sink.on_match call; a run whose sink is full is no longer followed
Push(m, next) ==
  IF Len(sink) < MaxSink
  THEN /\ sink' = Append(sink, m)
       /\ pc' = next
  ELSE /\ sink' = sink
       /\ pc' = "capped"

\* engine.rs:108,137-143  next_chunk returned Ok(None): leave the loop, Ok(())
SearchOnNone ==
  /\ pc = "ret"
  /\ ret.kind = "None"
  /\ pc' = "done"
  /\ UNCHANGED <<config, src_pos, err_seen, buf, len, eof, next_global_off,
                 carry, filled, ret, search_off, sink, hist, win_start>>

\* engine.rs:108  next_chunk()? returned Err: search returns it
SearchOnErr ==
  /\ pc = "ret"
  /\ ret.kind = "Err"
  /\ pc' = "failed"
  /\ UNCHANGED <<config, src_pos, err_seen, buf, len, eof, next_global_off,
                 carry, filled, ret, search_off, sink, hist, win_start>>

\* engine.rs:109-117  a window and an empty needle: one hit if the window is
\* at offset 0, then break
SearchEmptyNeedle ==
  /\ pc = "ret"
  /\ ret.kind = "Some"
  /\ Len(needle) = 0
  /\ IF ret.off = 0
     THEN Push(Match(0, 0, file_id), "done")
     ELSE /\ pc' = "done"
          /\ UNCHANGED sink
  /\ win_start' = Len(sink)
  /\ UNCHANGED <<config, src_pos, err_seen, buf, len, eof, next_global_off,
                 carry, filled, ret, search_off, hist>>

\* engine.rs:122  a window and a non-empty needle: search_off = 0
SearchWindow ==
  /\ pc = "ret"
  /\ ret.kind = "Some"
  /\ Len(needle) > 0
  /\ search_off' = 0
  /\ win_start' = Len(sink)
  /\ pc' = "scan"
  /\ UNCHANGED <<config, src_pos, err_seen, buf, len, eof, next_global_off,
                 carry, filled, ret, sink, hist>>

\* engine.rs:123-134  one iteration of the inner while-let
ScanStep ==
  /\ pc = "scan"
  /\ LET rel == MemmemFind(SliceFrom(ret.bytes, search_off), needle)
         pos == search_off + rel
     IN IF rel = NoHit
        THEN /\ pc' = "loop"
             /\ UNCHANGED <<search_off, sink>>
        ELSE /\ search_off' = NextSearchOff(pos, Len(needle))
             /\ Push(Match(ret.off + pos, Len(needle), file_id),
                     IF search_off' >= Len(ret.bytes) THEN "loop" ELSE "scan")
  /\ UNCHANGED <<config, src_pos, err_seen, buf, len, eof, next_global_off,
                 carry, filled, ret, hist, win_start>>

Next ==
  \/ NextChunkEnter
  \/ ReadLoopExit
  \/ SourceRead
  \/ SourceEof
  \/ SourceErr
  \/ NextChunkFinish
  \/ SearchOnNone
  \/ SearchOnErr
  \/ SearchEmptyNeedle
  \/ SearchWindow
  \/ ScanStep

Spec == Init /\ [][Next]_vars

\* the search is sequential code: whenever a step is possible it is taken
FairSpec == Spec /\ WF_vars(Next)

(* ----------------------- the Chunker driven directly ------------------- *)
\* chunker.rs:55-67  Chunker::new with any overlap, not only needle length - 1
ChunkerInit ==
  /\ stream \in SeqsUpTo(MaxStream)
  /\ needle = <<>>
  /\ file_id = 0
  /\ flags = 0
  /\ faulty \in BOOLEAN
  /\ chunk_size \in ChunkSizes
  /\ overlap \in 0..MaxOverlap
  /\ buf = ZeroBuf(Capacity(chunk_size, overlap))
  /\ len = 0
  /\ eof = FALSE
  /\ next_global_off = 0
  /\ src_pos = 0
  /\ err_seen = FALSE
  /\ carry = 0
  /\ filled = 0
  /\ ret = NoneRet
  /\ search_off = 0
  /\ sink = <<>>
  /\ win = NoneRet
  /\ prev_win = NoneRet
  /\ seen = {}
  /\ ranges = {}
  /\ none_seen = FALSE
  /\ after_none = FALSE
  /\ win_start = 0
  /\ pc = "loop"

\* chunker.rs:83  a caller of the public next_chunk drops the window (or
\* the None) it got and calls again; an Err ends the use of the reader
CallAgain ==
  /\ pc = "ret"
  /\ ret.kind # "Err"
  /\ pc' = "loop"
  /\ UNCHANGED <<config, src_pos, err_seen, buf, len, eof, next_global_off,
                 carry, filled, ret, search_off, sink, hist, win_start>>

ChunkerNext ==
  \/ NextChunkEnter
  \/ ReadLoopExit
  \/ SourceRead
  \/ SourceEof
  \/ SourceErr
  \/ NextChunkFinish
  \/ CallAgain

ChunkerSpec == ChunkerInit /\ [][ChunkerNext]_vars

\* the caller keeps calling and every call runs to its return
FairChunkerSpec == ChunkerSpec /\ WF_vars(ChunkerNext)

(* ------------------------------ oracle --------------------------------- *)
\* the needle occurs in the whole stream at offset o
OccursAt(o) == HitAt(stream, needle, o)
Occurrences == {o \in 0..Len(stream) : OccursAt(o)}
SinkOffs == {sink[i].off : i \in 1..Len(sink)}

TypeOK ==
  /\ pc \in {"loop", "read", "finish", "ret", "scan", "done", "failed", "capped"}
  /\ len \in 0..Len(buf)
  /\ src_pos \in 0..Len(stream)
  /\ Len(sink) <= MaxSink

(* ------------------------------ claims --------------------------------- *)
\* configurations the contract covers: non-empty needle, chunk size >= 1
Covered == Len(needle) >= 1 /\ chunk_size >= 1

\* C1 (completeness and exactly-once): for a non-empty needle and a chunk
\* size >= 1, every offset pushed to the sink is an offset at which the needle
\* occurs in the whole stream, no offset is pushed twice, and when search has
\* returned Ok(()) the pushed offsets are exactly the occurrences.
C1_ExactlyOnce ==
  Covered =>
    /\ \A i \in 1..Len(sink) : OccursAt(sink[i].off)
    /\ \A i, j \in 1..Len(sink) : sink[i].off = sink[j].off => i = j
    /\ pc = "done" => SinkOffs = Occurrences

\* C2 (termination): with a source that never fails and a chunk size >= 1,
\* search eventually returns Ok(()).  A run the model stopped following
\* because its sink is full is not counted against the claim.
C2_Terminates ==
  (~faulty /\ chunk_size >= 1) => <>(pc \in {"done", "capped"})

\* the occurrences of the needle in the whole stream, in increasing order:
\* what one scan of the stream as a single in-memory window pushes
RECURSIVE OccFrom(_)
OccFrom(o) ==
  IF o > Len(stream) THEN <<>>
  ELSE IF OccursAt(o) THEN <<o>> \o OccFrom(o + 1)
  ELSE OccFrom(o + 1)
OccSeq == OccFrom(0)

\* C3 (re-chunking invariance): a run whose first window is the whole stream
\* (chunk size >= stream length, one read) first pushes every occurrence in
\* increasing order with the needle's length; so for every chunk size >= 1
\* and every split of the reads the pushed sequence agrees with that one
\* position by position, and has the same length once search has returned.
C3_RechunkInvariant ==
  Covered =>
    /\ \A i \in 1..Min(Len(sink), Len(OccSeq)) :
         sink[i].off = OccSeq[i] /\ sink[i].len = Len(needle)
    /\ pc = "done" => Len(sink) = Len(OccSeq)

\* C4 (ordering): for a non-empty needle the offsets pushed to the sink are
\* strictly increasing.
C4_StrictlyIncreasing ==
  Len(needle) >= 1 =>
    \A i, j \in 1..Len(sink) : i < j => sink[i].off < sink[j].off

\* C5 (empty-needle convention): for an empty needle and any stream, the
\* empty one included, search returns with exactly one match in the sink,
\* at offset 0 with length 0.
C5_EmptyNeedleOneMatch ==
  (Len(needle) = 0 /\ chunk_size >= 1 /\ pc = "done") =>
    sink = <<Match(0, 0, file_id)>>

\* a read on the source (any outcome)
ReadStep == SourceRead \/ SourceEof \/ SourceErr

\* C6 (I/O failure): once a read has failed, next_chunk and then search
\* return the error; no further read is issued, the sink is not touched
\* again, and what it holds are true occurrences with the needle's length.
C6_IoFailure ==
  /\ [](err_seen =>
          /\ pc \in {"ret", "failed"}
          /\ pc = "ret" => ret.kind = "Err"
          /\ \A i \in 1..Len(sink) :
               OccursAt(sink[i].off) /\ sink[i].len = Len(needle))
  /\ [][err_seen => (sink' = sink /\ src_pos' = src_pos /\ ~ReadStep)]_vars
C6_Witness ==
  /\ err_seen
  /\ pc = "failed"
  /\ Len(sink) >= 1
  /\ src_pos > 0

\* C7 (configuration misuse): no search runs with chunk_size = 0 and returns
\* Ok(()) while occurrences of a non-empty needle are missing from the sink.
C7_ZeroChunkRejected ==
  ~(/\ chunk_size = 0
    /\ pc = "done"
    /\ Len(needle) >= 1
    /\ SinkOffs # Occurrences)

\* C8 (window addressing): every window next_chunk returns is non-empty and
\* its byte i is the stream byte at global position offset + i.
C8_FaithfulWindow ==
  ret.kind = "Some" =>
    /\ Len(ret.bytes) >= 1
    /\ ret.off + Len(ret.bytes) <= Len(stream)
    /\ \A i \in 1..Len(ret.bytes) : ret.bytes[i] = stream[ret.off + i]
C8_Witness ==
  /\ pc = "ret"
  /\ ret.kind = "Some"
  /\ carry >= 1
  /\ ret.off >= 1
  /\ Len(ret.bytes) > carry

\* C9 (bounded intake): one next_chunk call never reads more than chunk_size
\* new bytes, and a returned window is at most chunk_size + overlap long.
C9_BoundedIntake ==
  /\ filled <= chunk_size
  /\ ret.kind = "Some" => Len(ret.bytes) <= chunk_size + overlap

\* C10 (empty stream): when the source has no bytes, next_chunk never
\* returns a window, a search with a non-empty needle pushes nothing, and
\* it fails only if a read failed.
C10_EmptyStream ==
  Len(stream) = 0 =>
    /\ ret.kind # "Some"
    /\ pc \notin {"scan", "capped"}
    /\ Len(needle) >= 1 => sink = <<>>
    /\ pc = "failed" => err_seen
C10_Witness ==
  /\ Len(stream) = 0
  /\ Len(needle) >= 1
  /\ chunk_size >= 1
  /\ eof
  /\ pc = "done"

\* C11 (no repeat-only window): every window returned after the first holds
\* at least one stream position that no earlier window held.
C11_NoRepeatOnlyWindow ==
  (win.kind = "Some" /\ prev_win.kind = "Some") =>
    \E p \in Positions(win) : p \notin seen

\* C12 (carry and offset step): for consecutive windows W (prev_win) and W'
\* (win), with c = min(len(W), overlap): W'.off = W.off + len(W) - c, the
\* first c bytes of W' are the last c bytes of W, and every later position
\* of W' was in no earlier window.
C12_CarryAndOffsetStep ==
  (win.kind = "Some" /\ prev_win.kind = "Some") =>
    LET c == Min(Len(prev_win.bytes), overlap)
        n == Len(prev_win.bytes)
    IN /\ win.off = prev_win.off + n - c
       /\ Len(win.bytes) >= c
       /\ \A i \in 1..c : win.bytes[i] = prev_win.bytes[n - c + i]
       /\ \A p \in Positions(win) : p >= win.off + c => p \notin seen

\* every stream range [a, b) of length 1..overlap + 1
AllRanges ==
  {<<a, b>> \in (0..Len(stream)) \X (0..Len(stream)) :
     a < b /\ b - a <= overlap + 1}

\* C13 (boundary coverage): with a chunk size >= 1 and a source that does
\* not fail, every stream range of length <= overlap + 1 comes to lie wholly
\* inside one returned window.
C13_BoundaryCoverage ==
  (~faulty /\ chunk_size >= 1) => <>(AllRanges \subseteq ranges)

\* C15 (fill under short reads): the read loop of one next_chunk call is
\* left without an end-of-stream read only when chunk_size new bytes have
\* been obtained; it is never left because the buffer has no room.
C15_FillUnderShortReads ==
  [][ReadLoopExit => filled >= chunk_size]_vars

\* C14 (sticky exhaustion): once next_chunk has returned Ok(None), every
\* later call returns Ok(None) too (no window, no error) and the valid
\* length stays 0.
C14_StickyExhaustion ==
  none_seen => (ret.kind = "None" /\ len = 0)
C14_Witness ==
  /\ none_seen
  /\ after_none
  /\ pc = "ret"
  /\ overlap >= 1
  /\ win.kind = "Some"

\* the global offsets of the occurrences of the needle that lie wholly inside
\* window w at in-window positions p..., in increasing order
RECURSIVE HitsFrom(_, _)
HitsFrom(w, p) ==
  IF p >= Len(w.bytes) THEN <<>>
  ELSE IF HitAt(w.bytes, needle, p) THEN <<w.off + p>> \o HitsFrom(w, p + 1)
  ELSE HitsFrom(w, p + 1)

\* the offsets pushed while scanning the current window
WindowPushes == [i \in 1..(Len(sink) - win_start) |-> sink[win_start + i].off]

\* C16 (overlapping occurrences within a window): when the scan of a window
\* is over, the offsets pushed from it are exactly the positions at which the
\* needle occurs wholly inside the window, in increasing order; and needle
\* 'aaa' on stream 'aaaaa' ends with exactly the offsets 0, 1, 2 for every
\* chunk size >= 1.
C16_OverlappingOccurrences ==
  /\ (pc = "loop" /\ ret.kind = "Some" /\ Len(needle) >= 1) =>
       WindowPushes = HitsFrom(ret, 0)
  /\ (/\ stream = <<1, 1, 1, 1, 1>>
      /\ needle = <<1, 1, 1>>
      /\ chunk_size >= 1
      /\ pc = "done") =>
       [i \in 1..Len(sink) |-> sink[i].off] = <<0, 1, 2>>
C16_Witness ==
  /\ pc = "loop"
  /\ ret.kind = "Some"
  /\ stream = <<1, 1, 1, 1, 1>>
  /\ needle = <<1, 1, 1>>
  /\ Len(WindowPushes) >= 2
  /\ WindowPushes[2] = WindowPushes[1] + 1

\* search is scanning, or has just scanned, a window that is not the first
InLaterWindow ==
  /\ pc \in {"scan", "loop"}
  /\ ret.kind = "Some"
  /\ prev_win.kind = "Some"
  /\ Len(needle) >= 1

\* in-window start positions of the matches pushed from the current window
WindowStarts == {sink[i].off - ret.off : i \in (win_start + 1)..Len(sink)}

\* C17 as stated (de-duplication policy): from a window after the first only
\* matches that start at or after the carried prefix are reported.
C17_OnlyNewStarts ==
  InLaterWindow => \A p \in WindowStarts : p >= carry

\* C17 as amended: from a window after the first only matches that reach
\* past the carried prefix are reported, and a match that starts inside the
\* carried prefix and reaches past it is reported from that window.
C17_ReachPastCarry ==
  /\ InLaterWindow => \A p \in WindowStarts : p + Len(needle) > carry
  /\ (InLaterWindow /\ pc = "loop") =>
       \A p \in 0..(carry - 1) :
         HitAt(ret.bytes, needle, p) => p \in WindowStarts
C17_Witness ==
  /\ InLaterWindow
  /\ pc = "loop"
  /\ \E p \in WindowStarts : p < carry

C19_NoReReport ==
  Len(needle) >= 2 =>
    /\ carry <= Len(needle) - 1
    /\ InLaterWindow =>
         \A p \in WindowStarts :
           /\ p + Len(needle) > Len(ret.bytes) - filled
           /\ \A i \in 1..win_start : sink[i].off # ret.off + p
C19_Witness ==
  /\ InLaterWindow
  /\ Len(needle) >= 2
  /\ win_start >= 1
  /\ carry = Len(needle) - 1
  /\ \E p \in WindowStarts : p < carry

\* C20 (buffer bounds): the buffer has max(floor, chunk_size + overlap)
\* bytes, inside next_chunk the valid length plus the bytes read in the
\* current call never exceed it, and the carry step keeps at most
\* min(len, overlap) bytes.
C20_BufferBounds ==
  /\ [](/\ Len(buf) = Max(MinCap, chunk_size + overlap)
        /\ len <= Len(buf)
        /\ pc \in {"read", "finish"} => len + filled <= Len(buf)
        /\ carry <= overlap)
  /\ [][(NextChunkEnter /\ pc' = "read") =>
          /\ carry' <= Min(len, overlap)
          /\ len' <= len]_vars
C20_Witness ==
  /\ pc = "finish"
  /\ carry >= 1
  /\ len + filled = Len(buf)
  /\ chunk_size >= 1

====
